---- MODULE Spec2Model ----
(***************************************************************************)
(* A model of hare, a client layer over amqplib: the AMQPConnection        *)
(* identity map with its retain counts and its connection signatures       *)
(* (connection.py), the Publisher and Consumer facades with publish, pop   *)
(* and subscribe (publisher.py, consumer.py), the message_iterator         *)
(* hand-off between the delivery callback and the consuming generator      *)
(* (consumer.py) and the ConsumerProcess.run loop (consumer_process.py).   *)
(***************************************************************************)
EXTENDS Integers, Sequences, FiniteSets, TLC

VARIABLES
    ENABLE_MQ,            \* settings.ENABLE_MQ
    _active_connections,  \* AMQPConnection._active_connections: signature -> [count, conn]
    connections,          \* every amqp.Connection object built so far: [sig, closed]
    channels,             \* every Channel object built so far: [conn, closed]
    handles,              \* every AMQPConnection instance built so far
    exc,                  \* the exception the last operation raised ("none" when it returned)
    ret,                  \* what the last operation returned
    _declared_exchanges,  \* Publisher._declared_exchanges
    _declared_queues,     \* Consumer._declared_queues
    publishers,           \* every Publisher instance built so far
    consumers,            \* every Consumer instance built so far
    wire,                 \* the methods sent to the broker through the channels, in order
    popped,               \* the messages Consumer.pop has returned, in order
    forced,               \* the force_no_declare argument of the last Consumer(...) call
    tpc,                  \* per thread: the line of __init__ or close it is about to run
    tlocal,               \* per thread: its locals (signature, objects loaded, its handle)
    mode,                 \* which thread the transport calls the delivery callback on
    consumer_class,       \* the class of the Consumer (its decode)
    limit,                \* message_iterator's limit argument
    gpc,                  \* the line the message_iterator generator is at
    iterations,           \* message_iterator's iterations
    waits,                \* how many times message_iterator has called channel.wait()
    subscribed,           \* basic_consume has registered the callback, basic_cancel not yet removed it
    cancels,              \* how many times basic_cancel was called with the tag
    event_lock,           \* who holds event_lock
    waiting,              \* the waiting event's flag
    message_available,    \* the message_available event: its flag and its result attribute
    cpc,                  \* the line the delivery callback (FakeCallback.__new__) is at
    cmsg,                 \* the message the callback was called with
    dispatched,           \* the current channel.wait() call has dispatched its method
    delivered,            \* the messages handed to the callback so far, in order
    yielded,              \* the messages the generator has yielded so far, in order
    rpc,                  \* where the generator's consumer is (the line of ConsumerProcess.run)
    message,              \* the consumer's loop variable
    rexc,                 \* the exception that left the loop ("none" when none did)
    fault_tolerant,       \* run's fault_tolerant argument
    auto_ack,             \* ConsumerProcess.auto_ack
    events,               \* what run has done so far, in order
    requests,             \* two calls' keyword arguments, each in the order they were written
    keys,                 \* the connection signatures computed for the two calls
    spc,                  \* where Consumer.subscribe is
    sclass,               \* the class of the subscribing Consumer (its decode)
    slog,                 \* what subscribe and its callback wrapper have done so far, in order
    sexc                  \* the exception that left subscribe ("none" when none did)

connVars == <<ENABLE_MQ, _active_connections, connections, channels, handles, exc, ret>>
clientVars == <<_declared_exchanges, _declared_queues, publishers, consumers, wire, popped,
               forced>>
thrVars == <<tpc, tlocal>>

iterSetup == <<mode, consumer_class, limit>>
genVars == <<gpc, iterations, waits, subscribed, cancels, dispatched, yielded>>
syncVars == <<event_lock, waiting, message_available>>
cbVars == <<cpc, cmsg, delivered>>
loopVars == <<rpc, message, rexc>>
runVars == <<fault_tolerant, auto_ack, events>>
iterVars == <<iterSetup, genVars, syncVars, cbVars, loopVars>>

sigVars == <<requests, keys>>
subVars == <<spc, sclass, slog, sexc>>

vars == <<connVars, clientVars, thrVars, iterVars, runVars, sigVars, subVars>>

\* What the operations of one part of the program leave alone.
notConn == <<clientVars, thrVars, iterVars, runVars, sigVars, subVars>>
notClient == <<thrVars, iterVars, runVars, sigVars, subVars>>
notThr == <<clientVars, exc, ret, iterVars, runVars, sigVars, subVars>>
notIter == <<connVars, clientVars, thrVars, runVars, sigVars, subVars>>
notRun == <<connVars, clientVars, thrVars, iterSetup, genVars, syncVars, cbVars, sigVars,
           subVars>>

----------------------------------------------------------------------------
(* Bounds of the model. *)

MaxHandles == 3
MaxChannels == 1
MaxCloses == 2
MaxPublishers == 1
MaxConsumers == 2
MaxPublished == 2
NThreads == 2
MaxMessages == 3
MaxIterations == 4
MaxKeywords == 3

\* How many times the model calls channel.queue_delete.
MaxDestroyed == 2

----------------------------------------------------------------------------
(* connection.py *)

\* Python's None, as a connection or channel reference (object ids start at 1).
None == 0
\* An attribute that has not been set on the instance (hasattr is False).
Unset == -1

\* The defaults _connection_signature takes when settings does not override them.
AMQP_HOST == "localhost:5672"
AMQP_USER == "guest"
AMQP_PASSWORD == "guest"
AMQP_VHOST == "/"

\* The position of a keyword in the alphabetical order cmp() sorts the items by.
KeyRank ==
    [k \in {"connect_timeout", "host", "insist", "password", "ssl", "userid", "virtual_host"} |->
        CASE k = "connect_timeout" -> 1
          [] k = "host" -> 2
          [] k = "insist" -> 3
          [] k = "password" -> 4
          [] k = "ssl" -> 5
          [] k = "userid" -> 6
          [] k = "virtual_host" -> 7]

\* sorted(d.items(), cmp on the key): the items of dict d as a tuple of 2-tuples.
RECURSIVE SortedItems(_)
SortedItems(d) ==
    IF DOMAIN d = {} THEN <<>>
    ELSE LET k == CHOOSE x \in DOMAIN d : \A y \in DOMAIN d : KeyRank[x] <= KeyRank[y]
             rest == [x \in DOMAIN d \ {k} |-> d[x]]
         IN <<(<<k, d[k]>>)>> \o SortedItems(rest)

\* A call's keyword arguments: the five named parameters ("" stands for an
\* argument left out, which Python binds to None; insist to False) and the
\* dict of the remaining keywords.
Kwargs(host, user, password, vhost, insist, extra) ==
    [host |-> host, user |-> user, password |-> password, vhost |-> vhost,
     insist |-> insist, extra |-> extra]

\* A _connection_signature that sorts the arguments as they came, without the
\* defaults of lines 86-89 and of the insist parameter.
_connection_signatureAsGiven(kw) ==
    LET update == [k \in {"host", "userid", "password", "virtual_host", "insist"} |->
                      CASE k = "host" -> kw.host
                        [] k = "userid" -> kw.user
                        [] k = "password" -> kw.password
                        [] k = "virtual_host" -> kw.vhost
                        [] k = "insist" -> kw.insist]
        kwargs == update @@ kw.extra
    IN SortedItems(kwargs)

\* AMQPConnection._connection_signature
_connection_signature(kw) ==
    LET host == IF kw.host # "" THEN kw.host ELSE AMQP_HOST
        user == IF kw.user # "" THEN kw.user ELSE AMQP_USER
        password == IF kw.password # "" THEN kw.password ELSE AMQP_PASSWORD
        vhost == IF kw.vhost # "" THEN kw.vhost ELSE AMQP_VHOST
        insist == IF kw.insist # "" THEN kw.insist ELSE "False"
        update == [k \in {"host", "userid", "password", "virtual_host", "insist"} |->
                      CASE k = "host" -> host
                        [] k = "userid" -> user
                        [] k = "password" -> password
                        [] k = "virtual_host" -> vhost
                        [] k = "insist" -> insist]
        kwargs == update @@ kw.extra
    IN SortedItems(kwargs)

EmptyDict == [k \in {} |-> ""]

\* The keyword arguments the model's callers construct handles with.
ConnectArgs ==
    { Kwargs("", "", "", "", "", EmptyDict),
      Kwargs("localhost:5672", "", "", "", "", EmptyDict),
      Kwargs("127.0.0.1:5672", "", "", "", "", EmptyDict) }

\* The keyword arguments the model's callers may write in a call, as
\* (name, value) pairs: host and insist with their default and another value,
\* and ssl, which _connection_signature takes into **kwargs.
Offered ==
    { <<"host", "localhost:5672">>, <<"host", "127.0.0.1:5672">>,
      <<"insist", "False">>, <<"insist", "True">>, <<"ssl", "True">> }

\* The calls: up to MaxKeywords keyword arguments in the order they are written,
\* no keyword twice (a SyntaxError in Python).
Calls ==
    UNION { {c \in [1..n -> Offered] : \A i, j \in 1..n : c[i][1] = c[j][1] => i = j} :
            n \in 0..MaxKeywords }

\* Python binds the keyword arguments of a call by name: host, user, password,
\* vhost and insist to the parameters of line 80-81, the others into **kwargs.
RECURSIVE Bind(_)
Bind(call) ==
    IF call = <<>> THEN Kwargs("", "", "", "", "", EmptyDict)
    ELSE LET kw == Bind(SubSeq(call, 1, Len(call) - 1))
             name == call[Len(call)][1]
             value == call[Len(call)][2]
         IN CASE name = "host" -> [kw EXCEPT !.host = value]
              [] name = "user" -> [kw EXCEPT !.user = value]
              [] name = "password" -> [kw EXCEPT !.password = value]
              [] name = "vhost" -> [kw EXCEPT !.vhost = value]
              [] name = "insist" -> [kw EXCEPT !.insist = value]
              [] OTHER -> [kw EXCEPT !.extra = (name :> value) @@ @]

\* self._connection_signature(**kwargs) for the two calls, connection.py:14.
Sign ==
    /\ keys = <<>>
    /\ keys' = << _connection_signature(Bind(requests[1])),
                  _connection_signature(Bind(requests[2])) >>
    /\ UNCHANGED <<requests, connVars, clientVars, thrVars, iterVars, runVars, subVars>>

Handle(sig, conn, enabled) ==
    [connection_signature |-> sig, connection |-> conn, enabled |-> enabled,
     _channels |-> <<>>, _channel |-> Unset, closes |-> 0]

\* The objects the connection layer works on, as one value R: the class-level
\* dict (ac), the amqp.Connection objects (conns), the Channel objects (chans)
\* and the AMQPConnection instances (hs).
Registry == [ac |-> _active_connections, conns |-> connections,
             chans |-> channels, hs |-> handles]

\* The dict after self._active_connections[sig] = [1, amqp.Connection(**sig)].
Retain1(ac, sig, conn) ==
    [s \in DOMAIN ac \cup {sig} |-> IF s = sig THEN [count |-> 1, conn |-> conn] ELSE ac[s]]

\* A constructor that never looks the signature up: every handle opens a
\* connection of its own.
constructAlwaysNew(R, enabled, kw) ==
    LET sig == _connection_signature(kw)
        new == Len(R.conns) + 1
    IN IF enabled
       THEN [R EXCEPT !.conns = Append(@, [sig |-> sig, closed |-> 0]),
                      !.ac = Retain1(@, sig, new),
                      !.hs = Append(@, Handle(sig, new, TRUE))]
       ELSE [R EXCEPT !.hs = Append(@, Handle(sig, None, FALSE))]

\* AMQPConnection.__init__: the objects after AMQPConnection(**kw); the new
\* instance is the last of hs.
construct(R, enabled, kw) ==
    LET sig == _connection_signature(kw)
        new == Len(R.conns) + 1
    IN IF enabled
       THEN IF sig \notin DOMAIN R.ac
            THEN [R EXCEPT !.conns = Append(@, [sig |-> sig, closed |-> 0]),
                           !.ac = Retain1(@, sig, new),
                           !.hs = Append(@, Handle(sig, new, TRUE))]
            ELSE [R EXCEPT !.ac[sig].count = @ + 1,
                           !.hs = Append(@, Handle(sig, R.ac[sig].conn, TRUE))]
       ELSE [R EXCEPT !.hs = Append(@, Handle(sig, None, FALSE))]

\* How many times close() has been called, over all handles.
RECURSIVE CloseCalls(_)
CloseCalls(hs) == IF hs = <<>> THEN 0 ELSE hs[1].closes + CloseCalls(Tail(hs))

\* channel.close() on every channel of the list, in order.
CloseAll(chs, list) ==
    [c \in DOMAIN chs |->
        [chs[c] EXCEPT !.closed = @ + Cardinality({i \in DOMAIN list : list[i] = c})]]

\* The dict after del self._active_connections[sig].
Forget(ac, sig) == [s \in DOMAIN ac \ {sig} |-> ac[s]]

\* Which call of a close() raises: none, the channel.close() of the k-th channel
\* of the handle's list (k >= 1), or connection.close().
NoFailure == 0
ConnectionFails == -1
CloseFailures(hd) == {NoFailure, ConnectionFails} \cup (1..Len(hd._channels))

\* AMQPConnection.close: the objects after handle h's close(), and what it
\* raised.  A channel.close() that raises ends the method at line 51; a
\* connection.close() that raises ends it at line 57, after the decrement of
\* line 54 and before the del of line 58.
close(R, h, fail) ==
    LET hd == R.hs[h]
        sig == hd.connection_signature
        called == IF fail >= 1 THEN SubSeq(hd._channels, 1, fail) ELSE hd._channels
        R1 == [R EXCEPT !.hs[h].closes = @ + 1,
                        !.chans = CloseAll(@, called)]
    IN IF fail >= 1
       THEN [R |-> R1, exc |-> "AMQPChannelException"]
       ELSE IF hd.enabled
       THEN IF sig \notin DOMAIN R1.ac
            THEN \* self._active_connections[sig][0] -= 1 raises KeyError
                 [R |-> R1, exc |-> "KeyError"]
            ELSE IF R1.ac[sig].count - 1 <= 0
                 THEN IF fail = ConnectionFails
                      THEN [R |-> [R1 EXCEPT !.ac[sig].count = @ - 1,
                                             !.conns[hd.connection].closed = @ + 1],
                            exc |-> "IOError"]
                      ELSE [R |-> [R1 EXCEPT !.conns[hd.connection].closed = @ + 1,
                                             !.ac = Forget(@, sig)],
                            exc |-> "none"]
                 ELSE [R |-> [R1 EXCEPT !.ac[sig].count = @ - 1], exc |-> "none"]
       ELSE [R |-> R1, exc |-> "none"]

\* AMQPConnection.new_channel: the objects after handle h's new_channel(), and
\* the channel it returned.
new_channel(R, h) ==
    IF R.hs[h].enabled
    THEN [R |-> [R EXCEPT !.chans = Append(@, [conn |-> R.hs[h].connection, closed |-> 0]),
                          !.hs[h]._channels = Append(@, Len(R.chans) + 1)],
          ret |-> Len(R.chans) + 1]
    ELSE [R |-> R, ret |-> None]

\* AMQPConnection.channel (the property): the objects after reading handle h's
\* channel, and the channel it returned.
channel(R, h) ==
    IF R.hs[h]._channel = Unset
    THEN LET n == new_channel(R, h)
         IN [R |-> [n.R EXCEPT !.hs[h]._channel = n.ret], ret |-> n.ret]
    ELSE [R |-> R, ret |-> R.hs[h]._channel]

\* Whether handle h's new_channel() would build a channel.
BuildsChannel(R, h, default) ==
    R.hs[h].enabled /\ (default => R.hs[h]._channel = Unset)

\* The objects become R.
Becomes(R) ==
    /\ _active_connections' = R.ac
    /\ connections' = R.conns
    /\ channels' = R.chans
    /\ handles' = R.hs

\* AMQPConnection(**kw).  When the signature is not in the dict,
\* amqp.Connection(**sig) is called on the right-hand side of line 22 and may
\* raise: nothing has been stored then and no instance comes into being.
Construct(kw) ==
    /\ Len(handles) < MaxHandles
    /\ \E opens \in BOOLEAN :
          IF opens \/ ~ENABLE_MQ \/ _connection_signature(kw) \in DOMAIN _active_connections
          THEN /\ Becomes(construct(Registry, ENABLE_MQ, kw))
               /\ exc' = "none"
          ELSE /\ UNCHANGED <<_active_connections, connections, channels, handles>>
               /\ exc' = "socket.error"
    /\ ret' = None
    /\ UNCHANGED <<ENABLE_MQ, notConn>>

\* close() on handle h when none of the calls it makes raises.
Close(h) ==
    /\ h \in DOMAIN handles
    /\ CloseCalls(handles) < MaxCloses
    /\ Becomes(close(Registry, h, NoFailure).R)
    /\ exc' = close(Registry, h, NoFailure).exc
    /\ ret' = None
    /\ UNCHANGED <<ENABLE_MQ, notConn>>

\* close() on handle h when one of its channel.close() calls, or the
\* connection.close() it gets to, raises.
CloseRaises(h) ==
    /\ h \in DOMAIN handles
    /\ CloseCalls(handles) < MaxCloses
    /\ \E fail \in CloseFailures(handles[h]) \ {NoFailure} :
          /\ close(Registry, h, fail).exc \in {"AMQPChannelException", "IOError"}
          /\ Becomes(close(Registry, h, fail).R)
          /\ exc' = close(Registry, h, fail).exc
    /\ ret' = None
    /\ UNCHANGED <<ENABLE_MQ, notConn>>

NewChannel(h) ==
    /\ h \in DOMAIN handles
    /\ BuildsChannel(Registry, h, FALSE) => Len(channels) < MaxChannels
    /\ Becomes(new_channel(Registry, h).R)
    /\ ret' = new_channel(Registry, h).ret
    /\ exc' = "none"
    /\ UNCHANGED <<ENABLE_MQ, notConn>>

Channel(h) ==
    /\ h \in DOMAIN handles
    /\ BuildsChannel(Registry, h, TRUE) => Len(channels) < MaxChannels
    /\ Becomes(channel(Registry, h).R)
    /\ ret' = channel(Registry, h).ret
    /\ exc' = "none"
    /\ UNCHANGED <<ENABLE_MQ, notConn>>

----------------------------------------------------------------------------
(* publisher.py and Consumer.__init__ of consumer.py *)

\* AMQPConnection(): the keyword arguments of a call that passes none.
NoArgs == Kwargs("", "", "", "", "", EmptyDict)

\* Whether x occurs in the Python list l.
In(x, l) == \E i \in DOMAIN l : l[i] = x

\* The bodies the model's callers publish (Python strings).
Bodies == {"a", "7"}

\* simplejson.dumps of a Python string.
JsonDumps(body) == CASE body = "a" -> "\"a\"" [] body = "7" -> "\"7\""

\* A Publisher whose encode is JSONPublisher's.
encodeAlwaysJson(class, body) == JsonDumps(body)

\* Publisher.encode and JSONPublisher.encode
encode(class, body) == IF class = "JSONPublisher" THEN JsonDumps(body) ELSE body

\* connection if connection is not None else AMQPConnection(), then
\* channel if channel is not None else self.connection.channel, for a caller
\* that passes no channel: the objects after it, the handle and the channel.
Connect(R, enabled, conn) ==
    LET R0 == IF conn = None THEN construct(R, enabled, NoArgs) ELSE R
        h == IF conn = None THEN Len(R0.hs) ELSE conn
    IN [R |-> channel(R0, h).R, connection |-> h, channel |-> channel(R0, h).ret]

\* The bounds leave room for what Connect builds.
CanConnect(conn) ==
    /\ conn = None \/ conn \in DOMAIN handles
    /\ conn = None => Len(handles) < MaxHandles
    /\ IF conn = None
       THEN ENABLE_MQ => Len(channels) < MaxChannels
       ELSE BuildsChannel(Registry, conn, TRUE) => Len(channels) < MaxChannels

\* Publisher.__init__
PublisherInit(class, exchange, conn) ==
    /\ Len(publishers) < MaxPublishers
    /\ CanConnect(conn)
    /\ LET c == Connect(Registry, ENABLE_MQ, conn) IN
       /\ Becomes(c.R)
       /\ publishers' = Append(publishers,
              [class |-> class, exchange |-> exchange, connection |-> c.connection,
               channel |-> c.channel, routing_key |-> ""])
       /\ IF c.channel # None /\ ~In(exchange, _declared_exchanges)
          THEN /\ wire' = Append(wire, [method |-> "exchange_declare", exchange |-> exchange,
                                          durable |-> TRUE, auto_delete |-> FALSE,
                                          type |-> "direct"])
               /\ _declared_exchanges' = Append(_declared_exchanges, exchange)
          ELSE UNCHANGED <<wire, _declared_exchanges>>
    /\ exc' = "none"
    /\ ret' = None
    /\ UNCHANGED <<ENABLE_MQ, _declared_queues, consumers, popped, forced, notClient>>

\* Publisher.basic_publish
Publish(p, body) ==
    /\ p \in DOMAIN publishers
    /\ IF ~(publishers[p].channel # None)
       THEN UNCHANGED wire
       ELSE /\ Cardinality({i \in DOMAIN wire : wire[i].method = "basic_publish"}) < MaxPublished
            /\ wire' = Append(wire, [method |-> "basic_publish",
                                     channel |-> publishers[p].channel,
                                     exchange |-> publishers[p].exchange,
                                     routing_key |-> publishers[p].routing_key,
                                     mandatory |-> FALSE, immediate |-> FALSE,
                                     body |-> encode(publishers[p].class, body),
                                     delivery_mode |-> 2,
                                     \* not sent: the caller and its argument
                                     by |-> p, arg |-> body])
    /\ exc' = "none"
    /\ ret' = None
    /\ UNCHANGED <<ENABLE_MQ, _active_connections, connections, channels, handles,
                   _declared_exchanges, _declared_queues, publishers, consumers, popped,
                   forced, notClient>>

\* A Consumer.__init__ that declares whether or not the queue is recorded.
ConsumerInitRedeclares(queue, exchange, conn, force_no_declare) ==
    /\ Len(consumers) < MaxConsumers
    /\ CanConnect(conn)
    /\ LET c == Connect(Registry, ENABLE_MQ, conn)
           declares == ~force_no_declare
           raised == IF declares /\ exchange = "" THEN "AssertionError"
                     ELSE IF declares /\ c.channel = None
                          THEN \* None has no attribute queue_declare
                               "AttributeError"
                          ELSE "none"
       IN
       /\ Becomes(c.R)
       /\ exc' = raised
       /\ IF raised = "none"
          THEN /\ consumers' = Append(consumers,
                      [queue |-> queue, exchange |-> exchange, routing_key |-> "",
                       connection |-> c.connection, channel |-> c.channel])
               /\ wire' = IF declares
                          THEN wire \o
                               << [method |-> "queue_declare", channel |-> c.channel,
                                   queue |-> queue, passive |-> FALSE, durable |-> TRUE,
                                   exclusive |-> FALSE, auto_delete |-> FALSE],
                                  [method |-> "queue_bind", channel |-> c.channel,
                                   queue |-> queue, exchange |-> exchange,
                                   routing_key |-> ""] >>
                          ELSE wire
               /\ _declared_queues' = IF In(queue, _declared_queues)
                                      THEN _declared_queues
                                      ELSE Append(_declared_queues, queue)
          ELSE UNCHANGED <<consumers, wire, _declared_queues>>
    /\ ret' = None
    /\ forced' = force_no_declare
    /\ UNCHANGED <<ENABLE_MQ, _declared_exchanges, publishers, popped, notClient>>

\* Consumer.__init__; an exchange of "" stands for exchange=None.
ConsumerInit(queue, exchange, conn, force_no_declare) ==
    /\ Len(consumers) < MaxConsumers
    /\ CanConnect(conn)
    /\ LET c == Connect(Registry, ENABLE_MQ, conn)
           declares == ~In(queue, _declared_queues) /\ ~force_no_declare
           raised == IF declares /\ exchange = "" THEN "AssertionError"
                     ELSE IF declares /\ c.channel = None
                          THEN \* None has no attribute queue_declare
                               "AttributeError"
                          ELSE "none"
       IN
       /\ Becomes(c.R)
       /\ exc' = raised
       /\ IF raised = "none"
          THEN /\ consumers' = Append(consumers,
                      [queue |-> queue, exchange |-> exchange, routing_key |-> "",
                       connection |-> c.connection, channel |-> c.channel])
               /\ wire' = IF declares
                          THEN wire \o
                               << [method |-> "queue_declare", channel |-> c.channel,
                                   queue |-> queue, passive |-> FALSE, durable |-> TRUE,
                                   exclusive |-> FALSE, auto_delete |-> FALSE],
                                  [method |-> "queue_bind", channel |-> c.channel,
                                   queue |-> queue, exchange |-> exchange,
                                   routing_key |-> ""] >>
                          ELSE wire
               /\ _declared_queues' = IF In(queue, _declared_queues)
                                      THEN _declared_queues
                                      ELSE Append(_declared_queues, queue)
          ELSE UNCHANGED <<consumers, wire, _declared_queues>>
    /\ ret' = None
    /\ forced' = force_no_declare
    /\ UNCHANGED <<ENABLE_MQ, _declared_exchanges, publishers, popped, notClient>>

\* list.remove: l without the first occurrence of x.
Remove(l, x) ==
    LET i == CHOOSE i \in DOMAIN l : l[i] = x /\ \A j \in 1..(i - 1) : l[j] # x
    IN SubSeq(l, 1, i - 1) \o SubSeq(l, i + 1, Len(l))

\* How many times queue_delete was sent.
Destroyed == Cardinality({i \in DOMAIN wire : wire[i].method = "queue_delete"})

\* Consumer.destroy_queue, consumer.py:57-60: queue_delete is sent, then the
\* name is removed from _declared_queues; list.remove raises ValueError when the
\* name is not in the list.
DestroyQueue(c) ==
    /\ c \in DOMAIN consumers
    /\ IF consumers[c].channel = None
       THEN \* None has no attribute queue_delete
            /\ exc' = "AttributeError"
            /\ UNCHANGED <<wire, _declared_queues>>
       ELSE /\ Destroyed < MaxDestroyed
            /\ wire' = Append(wire, [method |-> "queue_delete",
                                     channel |-> consumers[c].channel,
                                     queue |-> consumers[c].queue])
            /\ IF In(consumers[c].queue, _declared_queues)
               THEN /\ _declared_queues' = Remove(_declared_queues, consumers[c].queue)
                    /\ exc' = "none"
               ELSE /\ exc' = "ValueError"
                    /\ UNCHANGED _declared_queues
    /\ ret' = None
    /\ UNCHANGED <<ENABLE_MQ, _active_connections, connections, channels, handles,
                   _declared_exchanges, publishers, consumers, popped, forced,
                   notClient>>

\* Consumer.decode (JSONConsumer.decode is defined with message_iterator below).
ConsumerDecode(msg) == msg

\* The broker: the basic_publish methods among the first n of the wire that a
\* binding made before them routes to queue q (direct exchange: same exchange,
\* same routing key), in order.  Any other message is dropped, mandatory being
\* False.
RECURSIVE Routed(_, _)
Routed(q, n) ==
    IF n = 0 THEN <<>>
    ELSE IF /\ wire[n].method = "basic_publish"
            /\ \E j \in 1..(n - 1) :
                  /\ wire[j].method = "queue_bind"
                  /\ wire[j].queue = q
                  /\ wire[j].exchange = wire[n].exchange
                  /\ wire[j].routing_key = wire[n].routing_key
         THEN Append(Routed(q, n - 1), wire[n])
         ELSE Routed(q, n - 1)

\* How many messages basic_get has taken from queue q.
Taken(q) == Cardinality({i \in DOMAIN popped : popped[i].queue = q})

\* The messages waiting in queue q, oldest first.
Waiting(q) == SubSeq(Routed(q, Len(wire)), Taken(q) + 1, Len(Routed(q, Len(wire))))

\* Consumer.pop, consumer.py:75-82: basic_get returns None when no message is
\* waiting, else the oldest one.
Pop(c) ==
    /\ c \in DOMAIN consumers
    /\ IF consumers[c].channel = None
       THEN \* None has no attribute basic_get
            /\ exc' = "AttributeError"
            /\ ret' = None
            /\ UNCHANGED popped
       ELSE LET q == Waiting(consumers[c].queue) IN
            IF q = <<>>
            THEN /\ exc' = "IndexError"
                 /\ ret' = None
                 /\ UNCHANGED popped
            ELSE /\ exc' = "none"
                 /\ ret' = Taken(consumers[c].queue) + 1
                 /\ popped' = Append(popped,
                        ConsumerDecode([queue |-> consumers[c].queue,
                                        delivery_tag |-> Taken(consumers[c].queue) + 1,
                                        body |-> Head(q).body]))
    /\ UNCHANGED <<ENABLE_MQ, _active_connections, connections, channels, handles,
                   _declared_exchanges, _declared_queues, publishers, consumers, wire,
                   forced, notClient>>

----------------------------------------------------------------------------
(* AMQPConnection.__init__ and close run by several threads: one step per    *)
(* access to the shared dict, between which the interpreter may switch       *)
(* threads.  The list [count, connection] stored under a signature is        *)
(* identified by its connection, which no other list holds.                  *)

Threads == 1..NThreads

NoLocals == [sig |-> <<>>, conn |-> None, list |-> None, count |-> 0, h |-> None]

\* Thread t moves to line `to` of its method.
Goto(t, to) == tpc' = [tpc EXCEPT ![t] = to]

\* The list object l is the one the dict holds under sig.
IsCurrent(sig, l) == sig \in DOMAIN _active_connections /\ _active_connections[sig].conn = l

\* connection.py:14-17: the signature is computed and ENABLE_MQ read.
InitBegin(t, kw) ==
    /\ tpc[t] = "idle"
    /\ tlocal' = [tlocal EXCEPT ![t].sig = _connection_signature(kw)]
    /\ IF ENABLE_MQ
       THEN /\ Goto(t, "check")
            /\ UNCHANGED handles
       ELSE /\ Goto(t, "built")
            /\ handles' = Append(handles, Handle(_connection_signature(kw), None, FALSE))
    /\ UNCHANGED <<ENABLE_MQ, _active_connections, connections, channels, notThr>>

\* connection.py:18: if self.connection_signature not in self._active_connections
InitCheck(t) ==
    /\ tpc[t] = "check"
    /\ Goto(t, IF tlocal[t].sig \notin DOMAIN _active_connections THEN "connect" ELSE "incr")
    /\ UNCHANGED <<connVars, clientVars, tlocal, iterVars, runVars, sigVars, subVars>>

\* connection.py:22, right-hand side: amqp.Connection(**sig) opens a connection.
InitConnect(t) ==
    /\ tpc[t] = "connect"
    /\ connections' = Append(connections, [sig |-> tlocal[t].sig, closed |-> 0])
    /\ tlocal' = [tlocal EXCEPT ![t].conn = Len(connections) + 1]
    /\ Goto(t, "store")
    /\ UNCHANGED <<ENABLE_MQ, _active_connections, channels, handles, notThr>>

\* connection.py:22, the assignment: the new list is stored under the signature.
InitStore(t) ==
    /\ tpc[t] = "store"
    /\ _active_connections' = Retain1(_active_connections, tlocal[t].sig, tlocal[t].conn)
    /\ Goto(t, "bind")
    /\ UNCHANGED <<ENABLE_MQ, connections, channels, handles, notThr, tlocal>>

\* connection.py:26 and 54, the loads of x[sig][0] (+= and -=): the list under
\* the signature and its count; KeyError when the signature has no entry.
LoadCount(t, from, to, failed) ==
    /\ tpc[t] = from
    /\ IF tlocal[t].sig \in DOMAIN _active_connections
       THEN /\ tlocal' = [tlocal EXCEPT ![t].list = _active_connections[tlocal[t].sig].conn,
                                        ![t].count = _active_connections[tlocal[t].sig].count]
            /\ Goto(t, to)
       ELSE /\ Goto(t, failed)
            /\ UNCHANGED tlocal

\* connection.py:26 and 54, the stores of x[sig][0]: the count loaded plus d is
\* written into the list loaded, which the dict may no longer hold.
StoreCount(t, from, to, d) ==
    /\ tpc[t] = from
    /\ _active_connections' =
          IF IsCurrent(tlocal[t].sig, tlocal[t].list)
          THEN [_active_connections EXCEPT ![tlocal[t].sig].count = tlocal[t].count + d]
          ELSE _active_connections
    /\ Goto(t, to)

InitIncrLoad(t) ==
    /\ LoadCount(t, "incr", "incr_store", "raised")
    /\ UNCHANGED <<connVars, clientVars, iterVars, runVars, sigVars, subVars>>

InitIncrStore(t) ==
    /\ StoreCount(t, "incr_store", "bind", 1)
    /\ UNCHANGED <<ENABLE_MQ, connections, channels, handles, notThr, tlocal>>

\* connection.py:27-36: self.connection = self._active_connections[sig][1];
\* KeyError when the entry has been deleted in the meantime.
InitBind(t) ==
    /\ tpc[t] = "bind"
    /\ IF tlocal[t].sig \in DOMAIN _active_connections
       THEN /\ handles' = Append(handles,
                   Handle(tlocal[t].sig, _active_connections[tlocal[t].sig].conn, TRUE))
            /\ tlocal' = [tlocal EXCEPT ![t].h = Len(handles) + 1]
            /\ Goto(t, "built")
       ELSE /\ Goto(t, "raised")
            /\ UNCHANGED <<handles, tlocal>>
    /\ UNCHANGED <<ENABLE_MQ, _active_connections, connections, channels, notThr>>

\* connection.py:44-54: close() is called on the thread's handle (which owns no
\* channel); the count is loaded.
CloseBegin(t) ==
    /\ tpc[t] = "built"
    /\ tlocal[t].h # None
    /\ handles' = [handles EXCEPT ![tlocal[t].h].closes = @ + 1]
    /\ LoadCount(t, "built", "decr_store", "raised")
    /\ UNCHANGED <<ENABLE_MQ, _active_connections, connections, channels, notThr>>

CloseDecrStore(t) ==
    /\ StoreCount(t, "decr_store", "test", -1)
    /\ UNCHANGED <<ENABLE_MQ, connections, channels, handles, notThr, tlocal>>

\* connection.py:55: if self._active_connections[sig][0] <= 0
CloseTest(t) ==
    /\ tpc[t] = "test"
    /\ Goto(t, IF tlocal[t].sig \notin DOMAIN _active_connections THEN "raised"
               ELSE IF _active_connections[tlocal[t].sig].count <= 0 THEN "conn_close"
               ELSE "closed")
    /\ UNCHANGED <<connVars, clientVars, tlocal, iterVars, runVars, sigVars, subVars>>

\* connection.py:57: self.connection.close()
CloseConnection(t) ==
    /\ tpc[t] = "conn_close"
    /\ connections' = [connections EXCEPT ![handles[tlocal[t].h].connection].closed = @ + 1]
    /\ Goto(t, "del")
    /\ UNCHANGED <<ENABLE_MQ, _active_connections, channels, handles, notThr, tlocal>>

\* connection.py:58: del self._active_connections[sig]
CloseDel(t) ==
    /\ tpc[t] = "del"
    /\ IF tlocal[t].sig \in DOMAIN _active_connections
       THEN /\ _active_connections' = Forget(_active_connections, tlocal[t].sig)
            /\ Goto(t, "closed")
       ELSE /\ Goto(t, "raised")
            /\ UNCHANGED _active_connections
    /\ UNCHANGED <<ENABLE_MQ, connections, channels, handles, notThr, tlocal>>

NextThreads ==
    \/ \E t \in Threads, kw \in ConnectArgs : InitBegin(t, kw)
    \/ \E t \in Threads : InitCheck(t)
    \/ \E t \in Threads : InitConnect(t)
    \/ \E t \in Threads : InitStore(t)
    \/ \E t \in Threads : InitIncrLoad(t)
    \/ \E t \in Threads : InitIncrStore(t)
    \/ \E t \in Threads : InitBind(t)
    \/ \E t \in Threads : CloseBegin(t)
    \/ \E t \in Threads : CloseDecrStore(t)
    \/ \E t \in Threads : CloseTest(t)
    \/ \E t \in Threads : CloseConnection(t)
    \/ \E t \in Threads : CloseDel(t)

----------------------------------------------------------------------------
(* Consumer.message_iterator: the generator, the delivery callback it         *)
(* registers (FakeCallback.__new__) and the transport that calls it.          *)

\* message_available has no result attribute.
NoResult == [delivery_tag |-> 0, body |-> ""]

\* The bodies of the messages the broker delivers: JSON texts and one that is
\* not JSON.
WireBodies == {"\"a\"", "a"}

\* simplejson.loads raises ValueError on this text.
NotJson(body) == body \notin {"\"a\"", "\"7\""}

\* simplejson.loads of a JSON text.
JsonLoads(body) == CASE body = "\"a\"" -> "a" [] body = "\"7\"" -> "7" [] OTHER -> body

\* Consumer.decode and JSONConsumer.decode raise on this message.
DecodeRaises(class, msg) == class = "JSONConsumer" /\ NotJson(msg.body)

\* Consumer.decode and JSONConsumer.decode
decode(class, msg) ==
    IF class = "JSONConsumer" THEN [msg EXCEPT !.body = JsonLoads(@)] ELSE msg

\* consumer.py:131-134, 150-151 and the state of the transport before them.
IterStart ==
    /\ gpc = "start"
    /\ iterations = 0
    /\ waits = 0
    /\ subscribed = FALSE
    /\ cancels = 0
    /\ dispatched = FALSE
    /\ yielded = <<>>
    /\ event_lock = "free"
    /\ waiting = TRUE
    /\ message_available = [set |-> FALSE, result |-> NoResult]
    /\ cpc = "idle"
    /\ cmsg = NoResult
    /\ delivered = <<>>
    /\ rpc = "for"
    /\ message = NoResult
    /\ rexc = "none"

\* A finally clause that leaves the subscription as it is.
CancelledNever ==
    /\ subscribed' = subscribed
    /\ cancels' = cancels

\* The finally clause, consumer.py:173-176: basic_cancel(consumer_tag=tag).
Cancelled ==
    /\ subscribed' = FALSE
    /\ cancels' = cancels + 1

\* consumer.py:150-151: basic_consume registers the callback.
GenStart ==
    /\ rpc = "for"
    /\ gpc = "start"
    /\ subscribed' = TRUE
    /\ iterations' = 0
    /\ gpc' = "top"
    /\ UNCHANGED <<iterSetup, waits, cancels, dispatched, yielded, syncVars, cbVars,
                   loopVars, notIter>>

\* A loop that stops only once iterations has passed the limit.
GenTopInclusive ==
    /\ rpc = "for"
    /\ gpc = "top"
    /\ iterations < MaxIterations
    /\ iterations' = iterations + 1
    /\ IF limit # None /\ iterations' > limit
       THEN /\ Cancelled
            /\ gpc' = "done"
            /\ rpc' = "returned"
            /\ UNCHANGED <<waits, dispatched>>
       ELSE /\ gpc' = "wait"
            /\ waits' = waits + 1
            /\ dispatched' = FALSE
            /\ UNCHANGED <<subscribed, cancels, rpc>>
    /\ UNCHANGED <<iterSetup, yielded, syncVars, cbVars, message, rexc, notIter>>

\* consumer.py:153-159: the limit is applied; StopIteration is caught at 171
\* and the generator returns through the finally clause, else channel.wait()
\* is called.
GenTop ==
    /\ rpc = "for"
    /\ gpc = "top"
    /\ iterations < MaxIterations
    /\ iterations' = iterations + 1
    /\ IF limit # None /\ iterations' >= limit
       THEN /\ Cancelled
            /\ gpc' = "done"
            /\ rpc' = "returned"
            /\ UNCHANGED <<waits, dispatched>>
       ELSE /\ gpc' = "wait"
            /\ waits' = waits + 1
            /\ dispatched' = FALSE
            /\ UNCHANGED <<subscribed, cancels, rpc>>
    /\ UNCHANGED <<iterSetup, yielded, syncVars, cbVars, message, rexc, notIter>>

\* The transport calls the registered callback with the next message: inside the
\* consumer's own channel.wait() call, once per call, or on a thread of its own.
Deliver(body) ==
    /\ subscribed
    /\ cpc = "idle"
    /\ Len(delivered) < MaxMessages
    /\ mode = "same_thread" => (gpc = "wait" /\ rpc = "for" /\ ~dispatched)
    /\ cmsg' = [delivery_tag |-> Len(delivered) + 1, body |-> body]
    /\ delivered' = Append(delivered, cmsg')
    /\ cpc' = "acquire"
    /\ dispatched' = IF mode = "same_thread" THEN TRUE ELSE dispatched
    /\ UNCHANGED <<iterSetup, gpc, iterations, waits, subscribed, cancels, yielded, syncVars,
                   loopVars, notIter>>

\* consumer.py:139: with self.event_lock
CallbackAcquire ==
    /\ cpc = "acquire"
    /\ event_lock = "free"
    /\ event_lock' = "callback"
    /\ cpc' = "wait"
    /\ UNCHANGED <<iterSetup, genVars, waiting, message_available, cmsg, delivered,
                   loopVars, notIter>>

\* consumer.py:140: self.waiting.wait()
CallbackWait ==
    /\ cpc = "wait"
    /\ waiting
    /\ cpc' = "store"
    /\ UNCHANGED <<iterSetup, genVars, syncVars, cmsg, delivered, loopVars, notIter>>

\* consumer.py:141: self.message_available.result = message
CallbackStore ==
    /\ cpc = "store"
    /\ message_available' = [message_available EXCEPT !.result = cmsg]
    /\ cpc' = "set"
    /\ UNCHANGED <<iterSetup, genVars, event_lock, waiting, cmsg, delivered, loopVars,
                   notIter>>

\* consumer.py:142-143: self.message_available.set(), the lock is released and
\* the callback returns None.
CallbackSet ==
    /\ cpc = "set"
    /\ message_available' = [message_available EXCEPT !.set = TRUE]
    /\ event_lock' = "free"
    /\ cpc' = "idle"
    /\ UNCHANGED <<iterSetup, genVars, waiting, cmsg, delivered, loopVars, notIter>>

\* consumer.py:159: channel.wait() returns (after the callback, when it called
\* it itself).
WaitReturn ==
    /\ rpc = "for"
    /\ gpc = "wait"
    /\ mode = "same_thread" => cpc = "idle"
    /\ gpc' = "test"
    /\ UNCHANGED <<iterSetup, iterations, waits, subscribed, cancels, dispatched, yielded,
                   syncVars, cbVars, loopVars, notIter>>

\* consumer.py:159: channel.wait() raises; the finally clause cancels.
WaitRaises ==
    /\ rpc = "for"
    /\ gpc = "wait"
    /\ mode = "same_thread" => cpc = "idle"
    /\ Cancelled
    /\ gpc' = "raised"
    /\ rpc' = "raised"
    /\ rexc' = "IOError"
    /\ UNCHANGED <<iterSetup, iterations, waits, dispatched, yielded, syncVars, cbVars, message,
                   notIter>>

\* consumer.py:160: if message_available.isSet()
GenTest ==
    /\ rpc = "for"
    /\ gpc = "test"
    /\ gpc' = IF message_available.set THEN "lock" ELSE "top"
    /\ UNCHANGED <<iterSetup, iterations, waits, subscribed, cancels, dispatched, yielded,
                   syncVars, cbVars, loopVars, notIter>>

\* A generator that yields without taking event_lock or clearing waiting.
GenYieldUnlocked ==
    /\ rpc = "for"
    /\ gpc = "lock"
    /\ event_lock = "free"
    /\ waiting' = waiting
    /\ IF DecodeRaises(consumer_class, message_available.result)
       THEN /\ Cancelled
            /\ gpc' = "raised"
            /\ rpc' = "raised"
            /\ rexc' = "ValueError"
            /\ UNCHANGED <<event_lock, yielded, message>>
       ELSE /\ event_lock' = event_lock
            /\ yielded' = Append(yielded, message_available.result)
            /\ message' = decode(consumer_class, message_available.result)
            /\ gpc' = "yield"
            /\ rpc' = "body"
            /\ UNCHANGED <<subscribed, cancels, rexc>>
    /\ UNCHANGED <<iterSetup, iterations, waits, dispatched, message_available, cbVars, notIter>>

\* consumer.py:162-165: event_lock is acquired, waiting cleared and the decoded
\* result yielded; when decode raises, the with statement releases the lock and
\* the finally clause cancels.
GenYield ==
    /\ rpc = "for"
    /\ gpc = "lock"
    /\ event_lock = "free"
    /\ waiting' = FALSE
    /\ IF DecodeRaises(consumer_class, message_available.result)
       THEN /\ Cancelled
            /\ gpc' = "raised"
            /\ rpc' = "raised"
            /\ rexc' = "ValueError"
            /\ UNCHANGED <<event_lock, yielded, message>>
       ELSE /\ event_lock' = "generator"
            /\ yielded' = Append(yielded, message_available.result)
            /\ message' = decode(consumer_class, message_available.result)
            /\ gpc' = "yield"
            /\ rpc' = "body"
            /\ UNCHANGED <<subscribed, cancels, rexc>>
    /\ UNCHANGED <<iterSetup, iterations, waits, dispatched, message_available, cbVars, notIter>>

\* A generator that goes on after the yield with event_lock still held.
GenResumeKeepsLock ==
    /\ rpc = "for"
    /\ gpc = "yield"
    /\ message_available' = [set |-> FALSE, result |-> NoResult]
    /\ waiting' = TRUE
    /\ event_lock' = event_lock
    /\ gpc' = "top"
    /\ UNCHANGED <<iterSetup, iterations, waits, subscribed, cancels, dispatched, yielded, cbVars,
                   loopVars, notIter>>

\* consumer.py:166-170: the consumer has asked for the next message; the result
\* is deleted, message_available cleared, waiting set and the lock released.
GenResume ==
    /\ rpc = "for"
    /\ gpc = "yield"
    /\ message_available' = [set |-> FALSE, result |-> NoResult]
    /\ waiting' = TRUE
    /\ event_lock' = "free"
    /\ gpc' = "top"
    /\ UNCHANGED <<iterSetup, iterations, waits, subscribed, cancels, dispatched, yielded, cbVars,
                   loopVars, notIter>>

\* The consumer closes the generator while it is suspended at the yield of
\* consumer.py:165 (it leaves its for loop and drops the generator, or calls
\* close()): GeneratorExit is raised at the yield, the with statement of 162
\* releases event_lock, the except clause of 171 does not match and the finally
\* clause cancels.  Lines 166-170 are not run.
GenClose ==
    /\ rpc = "body"
    /\ gpc = "yield"
    /\ Cancelled
    /\ event_lock' = "free"
    /\ gpc' = "closed"
    /\ rpc' = "returned"
    /\ UNCHANGED <<iterSetup, iterations, waits, dispatched, yielded, waiting, message_available,
                   cbVars, message, rexc, notIter>>

\* A consumer that does nothing with the message it was given but ask for the
\* next one: for message in consumer.message_iterator(): pass
Pull ==
    /\ rpc = "body"
    /\ rpc' = "for"
    /\ UNCHANGED <<iterSetup, genVars, syncVars, cbVars, message, rexc, notIter>>

\* The message_iterator calls the model makes.
IterCalls ==
    /\ mode \in {"same_thread", "other_thread"}
    /\ consumer_class \in {"Consumer", "JSONConsumer"}
    /\ limit \in {None} \cup 1..MaxIterations
    /\ IterStart

NextGen ==
    \/ GenStart
    \/ GenTop
    \/ \E body \in WireBodies : Deliver(body)
    \/ CallbackAcquire
    \/ CallbackWait
    \/ CallbackStore
    \/ CallbackSet
    \/ WaitReturn
    \/ WaitRaises
    \/ GenTest
    \/ GenYield
    \/ GenResume

NextIter ==
    \/ NextGen
    \/ Pull
    \/ GenClose

----------------------------------------------------------------------------
(* ConsumerProcess.run (consumer_process.py) over message_iterator, and the   *)
(* transaction() context manager (utils/db.py) around process_message.       *)

\* What run has done for the message with delivery tag `tag`.
Event(ev, tag, e) == [ev |-> ev, tag |-> tag, exc |-> e]

\* What the body of `with transaction(): self.process_message(message)` can do:
\* process_message returns and the block commits; process_message returns and
\* the commit raises; process_message raises (the block rolls back and
\* re-raises).
Outcomes ==
    { [process |-> "returns", commit |-> "returns"],
      [process |-> "returns", commit |-> "DatabaseError"],
      [process |-> "Exception", commit |-> "none"],
      [process |-> "NotImplementedError", commit |-> "none"] }

\* The exception that leaves the with block ("none" when none does).
Raised(o) ==
    IF o.process # "returns" THEN o.process
    ELSE IF o.commit # "returns" THEN o.commit
    ELSE "none"

\* The events of the with block, utils/db.py:12-30.
BlockEvents(tag, o) ==
    IF o.process # "returns"
    THEN << Event("process_message raised", tag, o.process) >>
    ELSE << Event("process_message returned", tag, "none") >> \o
         ( IF o.commit # "returns"
           THEN << Event("commit raised", tag, o.commit) >>
           ELSE << Event("committed", tag, "none") >> )

\* An except clause that raises again only when fault_tolerant is true.
AfterReportInverted(mail, ft) ==
    IF mail # "sent" THEN "raised" ELSE IF ft THEN "raised" ELSE "for"

\* What comes after the except clause: the mail could not be sent, the
\* exception is raised again, or the loop goes on.
AfterReport(mail, ft) ==
    IF mail # "sent" THEN "raised" ELSE IF ~ft THEN "raised" ELSE "for"

\* consumer_process.py:34-39: the try block, and the except NotImplementedError
\* clause, which raises again at once.
RunTry(o) ==
    /\ rpc = "body"
    /\ events' = events \o BlockEvents(message.delivery_tag, o) \o
                  ( IF Raised(o) = "NotImplementedError"
                    THEN << Event("raise", message.delivery_tag, Raised(o)) >>
                    ELSE <<>> )
    /\ IF Raised(o) = "none"
       THEN /\ rpc' = "else"
            /\ UNCHANGED rexc
       ELSE IF Raised(o) = "NotImplementedError"
            THEN /\ rpc' = "raised"
                 /\ rexc' = Raised(o)
            ELSE /\ rpc' = "except"
                 /\ rexc' = Raised(o)
    /\ UNCHANGED <<message, fault_tolerant, auto_ack, notRun>>

\* An except clause that reports nothing when it is going to continue.
ReportEventsQuiet(tag, e, mail, ft) ==
    IF mail = "sent" /\ ft
    THEN << Event("next", tag, "none") >>
    ELSE << Event("logger.critical", tag, e) >> \o
         ( IF mail # "sent"
           THEN << Event("mail_admins raised", tag, mail) >>
           ELSE << Event("mail_admins", tag, e) >> ) \o
         << Event("raise", tag, IF mail # "sent" THEN mail ELSE e) >>

\* The events of the except clause, consumer_process.py:40-57.
ReportEvents(tag, e, mail, ft) ==
    << Event("logger.critical", tag, e) >> \o
    ( IF mail # "sent"
      THEN << Event("mail_admins raised", tag, mail) >>
      ELSE << Event("mail_admins", tag, e) >> ) \o
    << IF AfterReport(mail, ft) = "for"
       THEN Event("next", tag, "none")
       ELSE Event("raise", tag, IF mail # "sent" THEN mail ELSE e) >>

\* consumer_process.py:40-57: the bare except clause; mail_admins is called
\* with fail_silently=False and may raise itself.
RunExcept(mail) ==
    /\ rpc = "except"
    /\ events' = events \o ReportEvents(message.delivery_tag, rexc, mail, fault_tolerant)
    /\ rpc' = AfterReport(mail, fault_tolerant)
    /\ rexc' = IF mail # "sent" THEN mail
               ELSE IF AfterReport(mail, fault_tolerant) = "for" THEN "none"
               ELSE rexc
    /\ UNCHANGED <<message, fault_tolerant, auto_ack, notRun>>

\* An else clause that acknowledges twice.
AckEventsTwice(tag, ack) ==
    ( IF ack
      THEN << Event("basic_ack", tag, "none"), Event("basic_ack", tag, "none") >>
      ELSE <<>> ) \o
    << Event("next", tag, "none") >>

\* The events of the else clause, consumer_process.py:58-61, and of
\* Consumer.acknowledge, consumer.py:84-87.
AckEvents(tag, ack) ==
    ( IF ack THEN << Event("basic_ack", tag, "none") >> ELSE <<>> ) \o
    << Event("next", tag, "none") >>

\* consumer_process.py:58-62: the else clause, then the for statement asks the
\* generator for the next message.
RunElse ==
    /\ rpc = "else"
    /\ events' = events \o AckEvents(message.delivery_tag, auto_ack)
    /\ rpc' = "for"
    /\ UNCHANGED <<message, rexc, fault_tolerant, auto_ack, notRun>>

\* The run calls the model makes.
RunCalls ==
    /\ fault_tolerant \in BOOLEAN
    /\ auto_ack \in BOOLEAN
    /\ events = <<>>

NextRun ==
    \/ NextGen
    \/ \E o \in Outcomes : RunTry(o)
    \/ \E mail \in {"sent", "SMTPException"} : RunExcept(mail)
    \/ RunElse

----------------------------------------------------------------------------
(* Consumer.subscribe, consumer.py:89-121.  The transport calls the wrapper    *)
(* FakeCallback inside channel.wait(), on the thread that called subscribe.   *)

\* One thing subscribe or its wrapper did: for message `tag`, with the body it
\* was done with and the exception it raised.
SubEvent(ev, tag, arg, e) == [ev |-> ev, tag |-> tag, arg |-> arg, exc |-> e]

\* What the user's callback may do with a message.
CallbackOutcomes == {"returns", "Exception"}

\* The places in slog where `ev` was done for message k.
SAt(ev, k) == {i \in DOMAIN slog : slog[i].ev = ev /\ slog[i].tag = k}

\* The messages delivered to the wrapper so far; the last is the one it is
\* working on.
SubDelivered == Cardinality({i \in DOMAIN slog : slog[i].ev \in {"decode", "decode raised"}})

\* The body message k was delivered with.
RawBody(k) == slog[CHOOSE i \in SAt("decode", k) : TRUE].arg

\* The message the callback is called with: args[0] after line 102.
Decoded(k) == decode(sclass, [delivery_tag |-> k, body |-> RawBody(k)])

\* The finally clause, consumer.py:119-121.
SubCancel == << SubEvent("basic_cancel", 0, "", "none") >>

\* consumer.py:115: basic_consume registers the wrapper.
SubStart ==
    /\ spc = "start"
    /\ slog' = << SubEvent("basic_consume", 0, "", "none") >>
    /\ spc' = "wait"
    /\ UNCHANGED <<sclass, sexc, connVars, clientVars, thrVars, iterVars, runVars, sigVars>>

\* consumer.py:118, 100-103: channel.wait() hands a message to the wrapper,
\* which decodes it; what the wrapper raises leaves wait() and subscribe
\* through the finally clause.
SubDeliver(body) ==
    /\ spc = "wait"
    /\ SubDelivered < MaxMessages
    /\ LET msg == [delivery_tag |-> SubDelivered + 1, body |-> body] IN
       IF DecodeRaises(sclass, msg)
       THEN /\ slog' = slog \o
                    << SubEvent("decode raised", msg.delivery_tag, body, "ValueError") >> \o
                    SubCancel
            /\ spc' = "raised"
            /\ sexc' = "ValueError"
       ELSE /\ slog' = Append(slog, SubEvent("decode", msg.delivery_tag, body, "none"))
            /\ spc' = "callback"
            /\ UNCHANGED sexc
    /\ UNCHANGED <<sclass, connVars, clientVars, thrVars, iterVars, runVars, sigVars>>

\* A wrapper that goes on to acknowledge whatever the callback did.
SubCallbackGoesOn(outcome) ==
    /\ spc = "callback"
    /\ LET k == SubDelivered IN
       IF outcome = "returns"
       THEN /\ slog' = Append(slog, SubEvent("callback returned", k, Decoded(k).body, "none"))
            /\ spc' = "acknowledge"
            /\ UNCHANGED sexc
       ELSE /\ slog' = Append(slog, SubEvent("callback raised", k, Decoded(k).body, outcome))
            /\ spc' = "acknowledge"
            /\ UNCHANGED sexc
    /\ UNCHANGED <<sclass, connVars, clientVars, thrVars, iterVars, runVars, sigVars>>

\* consumer.py:108: ret = self.callback(*args, **kwargs)
SubCallback(outcome) ==
    /\ spc = "callback"
    /\ LET k == SubDelivered IN
       IF outcome = "returns"
       THEN /\ slog' = Append(slog, SubEvent("callback returned", k, Decoded(k).body, "none"))
            /\ spc' = "acknowledge"
            /\ UNCHANGED sexc
       ELSE /\ slog' = slog \o
                    << SubEvent("callback raised", k, Decoded(k).body, outcome) >> \o
                    SubCancel
            /\ spc' = "raised"
            /\ sexc' = outcome
    /\ UNCHANGED <<sclass, connVars, clientVars, thrVars, iterVars, runVars, sigVars>>

\* consumer.py:109-110: self.consumer.acknowledge(message=args[0]), which
\* sends basic_ack with the message's delivery tag and may raise, then the
\* wrapper returns and subscribe calls channel.wait() again.
SubAcknowledge(sent) ==
    /\ spc = "acknowledge"
    /\ LET k == SubDelivered IN
       IF sent
       THEN /\ slog' = Append(slog, SubEvent("basic_ack", k, Decoded(k).body, "none"))
            /\ spc' = "wait"
            /\ UNCHANGED sexc
       ELSE /\ slog' = slog \o
                    << SubEvent("basic_ack raised", k, Decoded(k).body, "IOError") >> \o
                    SubCancel
            /\ spc' = "raised"
            /\ sexc' = "IOError"
    /\ UNCHANGED <<sclass, connVars, clientVars, thrVars, iterVars, runVars, sigVars>>

\* consumer.py:118: channel.wait() itself raises.
SubWaitRaises ==
    /\ spc = "wait"
    /\ slog' = slog \o SubCancel
    /\ spc' = "raised"
    /\ sexc' = "IOError"
    /\ UNCHANGED <<sclass, connVars, clientVars, thrVars, iterVars, runVars, sigVars>>

\* The subscribe calls the model makes.
SubCalls ==
    /\ spc = "start"
    /\ sclass \in {"Consumer", "JSONConsumer"}
    /\ slog = <<>>
    /\ sexc = "none"

NextSub ==
    \/ SubStart
    \/ \E body \in WireBodies : SubDeliver(body)
    \/ \E outcome \in CallbackOutcomes : SubCallback(outcome)
    \/ \E sent \in BOOLEAN : SubAcknowledge(sent)
    \/ SubWaitRaises

----------------------------------------------------------------------------
(* Sequential use of the identity map. *)

\* No handle has been constructed.
NoHandles ==
    /\ _active_connections = [s \in {} |-> [count |-> 0, conn |-> None]]
    /\ connections = <<>>
    /\ channels = <<>>
    /\ handles = <<>>
    /\ exc = "none"
    /\ ret = None

InitConn ==
    /\ ENABLE_MQ \in BOOLEAN
    /\ NoHandles

InitClient ==
    /\ _declared_exchanges = <<>>
    /\ _declared_queues = <<>>
    /\ publishers = <<>>
    /\ consumers = <<>>
    /\ wire = <<>>
    /\ popped = <<>>
    /\ forced = FALSE

InitThr ==
    /\ tpc = [t \in Threads |-> "idle"]
    /\ tlocal = [t \in Threads |-> NoLocals]

\* No message_iterator call is under way (the state of one that is about to be
\* made with the defaults).
InitIter ==
    /\ mode = "same_thread"
    /\ consumer_class = "Consumer"
    /\ limit = None
    /\ IterStart

InitRun ==
    /\ fault_tolerant = TRUE
    /\ auto_ack = TRUE
    /\ events = <<>>

\* No signature is being compared.
InitSig ==
    /\ requests = << <<>>, <<>> >>
    /\ keys = <<>>

\* Consumer.subscribe has not been called.
InitSub ==
    /\ spc = "start"
    /\ sclass = "Consumer"
    /\ slog = <<>>
    /\ sexc = "none"

Init == InitConn /\ InitClient /\ InitThr /\ InitIter /\ InitRun /\ InitSig /\ InitSub

Next ==
    \/ \E kw \in ConnectArgs : Construct(kw)
    \/ \E h \in 1..MaxHandles : Close(h)
    \/ \E h \in 1..MaxHandles : NewChannel(h)
    \/ \E h \in 1..MaxHandles : Channel(h)

Spec == Init /\ [][Next]_vars

\* The signatures of two calls.
InitSpecSig ==
    /\ InitConn /\ InitClient /\ InitThr /\ InitIter /\ InitRun /\ InitSub
    /\ requests \in Calls \X Calls
    /\ keys = <<>>

NextSig == Sign

SpecSig == InitSpecSig /\ [][NextSig]_vars

\* One Consumer.subscribe call.
InitSpecSub ==
    /\ ENABLE_MQ = TRUE
    /\ NoHandles /\ InitClient /\ InitThr /\ InitIter /\ InitRun /\ InitSig /\ SubCalls

SpecSub == InitSpecSub /\ [][NextSub]_vars

\* Sequential use in which the channels' and connections' close() may raise.
NextFailing ==
    \/ Next
    \/ \E h \in 1..MaxHandles : CloseRaises(h)

SpecFailing == Init /\ [][NextFailing]_vars

\* The connection layer used through Publishers and Consumers as well.
NextClient ==
    \/ \E kw \in ConnectArgs : Construct(kw)
    \/ \E h \in 1..MaxHandles : Close(h)
    \/ \E h \in 1..MaxHandles : NewChannel(h)
    \/ \E h \in 1..MaxHandles : Channel(h)
    \/ \E class \in {"Publisher", "JSONPublisher"}, conn \in 0..MaxHandles :
           PublisherInit(class, "_hare_test", conn)
    \/ \E p \in 1..MaxPublishers, body \in Bodies : Publish(p, body)
    \/ \E exchange \in {"", "_hare_test"}, conn \in 0..MaxHandles, force \in BOOLEAN :
           ConsumerInit("_hare_test_queue", exchange, conn, force)

SpecClient == Init /\ [][NextClient]_vars

\* Publishers and Consumers on the default connection, publishing and popping.
NextQueue ==
    \/ \E class \in {"Publisher", "JSONPublisher"}, conn \in 0..MaxHandles :
           PublisherInit(class, "_hare_test", conn)
    \/ \E p \in 1..MaxPublishers, body \in Bodies : Publish(p, body)
    \/ \E conn \in 0..MaxHandles, force \in BOOLEAN :
           ConsumerInit("_hare_test_queue", "_hare_test", conn, force)
    \/ \E c \in 1..MaxConsumers : Pop(c)

SpecQueue == Init /\ [][NextQueue]_vars

\* The queues the model's Consumers are made for.
Queues == {"_hare_test_queue", "_hare_other_queue"}

\* Consumers made for the queues and their queues destroyed.
NextDeclare ==
    \/ \E queue \in Queues, exchange \in {"", "_hare_test"}, conn \in 0..MaxHandles,
          force \in BOOLEAN :
           ConsumerInit(queue, exchange, conn, force)
    \/ \E c \in 1..MaxConsumers : DestroyQueue(c)

SpecDeclare == Init /\ [][NextDeclare]_vars

\* Handles constructed and closed by concurrent threads.
SpecThreads == Init /\ [][NextThreads]_vars

\* One message_iterator call and its consumer.
InitSpecIter ==
    /\ ENABLE_MQ = TRUE
    /\ NoHandles /\ InitClient /\ InitThr /\ IterCalls /\ InitRun /\ InitSig /\ InitSub

SpecIter == InitSpecIter /\ [][NextIter]_vars

\* The threads are scheduled: a callback that can take its next step takes it,
\* the generator that can take event_lock or go on after the yield does, and
\* the consumer asks for the next message when it is done with one.
IterFairness ==
    /\ WF_vars(CallbackAcquire)
    /\ WF_vars(CallbackWait)
    /\ WF_vars(CallbackStore)
    /\ WF_vars(CallbackSet)
    /\ WF_vars(GenYield)
    /\ WF_vars(GenResume)
    /\ WF_vars(Pull)

SpecIterFair == InitSpecIter /\ [][NextIter]_vars /\ IterFairness

InitSpecRun ==
    /\ ENABLE_MQ = TRUE
    /\ NoHandles /\ InitClient /\ InitThr /\ IterCalls /\ RunCalls /\ InitSig /\ InitSub

\* One ConsumerProcess.run call.
SpecRun == InitSpecRun /\ [][NextRun]_vars

----------------------------------------------------------------------------
(* The identity map and the retain counts, used sequentially. *)

\* The handles that have not been closed.
Outstanding == {h \in DOMAIN handles : handles[h].enabled /\ handles[h].closes = 0}

\* The handles that reference physical connection c.
HandlesOn(c) == {h \in DOMAIN handles : handles[h].connection = c}

\* C1: with messaging enabled, after any sequence of constructions (no close()
\* has been called), two handles reference the same physical connection object
\* exactly when their connection signatures are equal, and every handle
\* references a connection that was really opened.
C1_IdentityMap ==
    (ENABLE_MQ /\ CloseCalls(handles) = 0) =>
        \A i, j \in DOMAIN handles :
            /\ handles[i].connection \in DOMAIN connections
            /\ (handles[i].connection_signature = handles[j].connection_signature)
                   <=> (handles[i].connection = handles[j].connection)

\* Three handles built as in MQIdentityMap.test_connection: two on
\* 'localhost:5672' sharing one connection, one on '127.0.0.1:5672'.
C1_Witness ==
    /\ ENABLE_MQ
    /\ CloseCalls(handles) = 0
    /\ Len(handles) = 3
    /\ handles[1].connection_signature = handles[2].connection_signature
    /\ handles[1].connection = handles[2].connection
    /\ handles[3].connection_signature # handles[1].connection_signature
    /\ handles[3].connection # handles[1].connection

\* C2: a physical connection's close() is not called while a handle that
\* references it is still outstanding, and it is called exactly once, when
\* the last of its handles is closed.
C2_ClosedOnLastRelease ==
    ENABLE_MQ =>
        \A c \in DOMAIN connections :
            /\ connections[c].closed <= 1
            /\ (HandlesOn(c) \cap Outstanding # {}) => connections[c].closed = 0
            /\ (HandlesOn(c) \cap Outstanding = {}) => connections[c].closed = 1

\* C6: a close() on a handle that was closed before changes neither the retain
\* counts nor the registry's entries, and closes no physical connection.
C6_SecondCloseIsNoOp ==
    [][\A h \in DOMAIN handles :
          (handles[h].closes >= 1 /\ handles'[h].closes = handles[h].closes + 1)
              => UNCHANGED <<_active_connections, connections>>]_vars


\* C5: once every thread has constructed its handle (and none has begun to
\* close it), each signature in use has exactly one physical connection and a
\* registry entry whose retain count is the number of handles on it.
C5_ConcurrentConstruct ==
    (ENABLE_MQ /\ \A t \in Threads : tpc[t] = "built") =>
        \A h \in DOMAIN handles :
            LET sig == handles[h].connection_signature IN
            /\ Cardinality({c \in DOMAIN connections : connections[c].sig = sig}) = 1
            /\ sig \in DOMAIN _active_connections
            /\ _active_connections[sig].count =
                  Cardinality({g \in DOMAIN handles : handles[g].connection_signature = sig})

----------------------------------------------------------------------------
(* Connection signatures. *)

\* The fields of a signature: the keywords amqp.Connection is called with.
Fields == DOMAIN KeyRank

\* The value the call gives keyword `name`, "" when it does not write it.
Given(call, name) ==
    IF \E i \in DOMAIN call : call[i][1] = name
    THEN call[CHOOSE i \in DOMAIN call : call[i][1] = name][2]
    ELSE ""

\* The effective value of a field for a call: what the call writes, else the
\* default (settings' for host, userid, password and virtual_host, False for
\* insist); a field outside these five is absent when the call does not write it.
Effective(call, field) ==
    CASE field = "host" -> IF Given(call, "host") # "" THEN Given(call, "host") ELSE AMQP_HOST
      [] field = "userid" -> IF Given(call, "user") # "" THEN Given(call, "user") ELSE AMQP_USER
      [] field = "password" ->
             IF Given(call, "password") # "" THEN Given(call, "password") ELSE AMQP_PASSWORD
      [] field = "virtual_host" ->
             IF Given(call, "vhost") # "" THEN Given(call, "vhost") ELSE AMQP_VHOST
      [] field = "insist" -> IF Given(call, "insist") # "" THEN Given(call, "insist") ELSE "False"
      [] OTHER -> IF Given(call, field) # "" THEN Given(call, field) ELSE "absent"

\* A key is a tuple of (keyword, value) 2-tuples, one per keyword, in the
\* order of the keywords: nothing in it but tuples and strings.
IsKey(k) ==
    /\ \A i \in DOMAIN k : Len(k[i]) = 2 /\ k[i][1] \in Fields
    /\ \A i, j \in DOMAIN k : i < j => KeyRank[k[i][1]] < KeyRank[k[j][1]]

\* C16: the signatures computed for two calls are keys of that form, and
\* they are equal exactly when the two calls have the same effective value in
\* every field, in whatever order the calls write their keywords and whether
\* they write a default or leave it out.
C16_SignatureIsNormalized ==
    keys # <<>> =>
        /\ IsKey(keys[1]) /\ IsKey(keys[2])
        /\ (keys[1] = keys[2]) <=>
               \A f \in Fields : Effective(requests[1], f) = Effective(requests[2], f)

\* Equal keys for two calls of which one writes the default host and the other
\* leaves it out, and which write insist and ssl in opposite orders.
C16_Witness ==
    /\ requests[1] = << <<"ssl", "True">>, <<"host", "localhost:5672">>, <<"insist", "True">> >>
    /\ requests[2] = << <<"insist", "True">>, <<"ssl", "True">> >>
    /\ keys # <<>>
    /\ keys[1] = keys[2]

----------------------------------------------------------------------------
(* close() and the calls it makes that may raise. *)

\* Handle h's close() is being called for the first time in this step.
FirstClose(h) == handles[h].closes = 0 /\ handles'[h].closes = 1

\* C14: a handle's close() calls close() on every channel the handle created,
\* also when one of these calls raises, and then gives up the handle's share of
\* the registry entry: the retain count goes down by one or the entry goes.
C14_ClosesPastFailures ==
    [][\A h \in DOMAIN handles :
          FirstClose(h) =>
              LET sig == handles[h].connection_signature IN
              /\ \A i \in DOMAIN handles[h]._channels :
                    channels'[handles[h]._channels[i]].closed =
                        channels[handles[h]._channels[i]].closed + 1
              /\ (handles[h].enabled /\ sig \in DOMAIN _active_connections) =>
                    \/ sig \notin DOMAIN _active_connections'
                    \/ _active_connections'[sig].count = _active_connections[sig].count - 1
      ]_vars

\* The signatures the model's callers use.
Signatures == {_connection_signature(kw) : kw \in ConnectArgs}

\* The enabled handles of signature sig on which close() has not been called.
Unclosed(sig) ==
    {h \in DOMAIN handles :
        /\ handles[h].enabled
        /\ handles[h].connection_signature = sig
        /\ handles[h].closes = 0}

\* No handle has had close() called on it more than once.
ClosedAtMostOnce == \A h \in DOMAIN handles : handles[h].closes <= 1

\* C17: with every handle closed at most once, a signature is in
\* _active_connections exactly when it has an unclosed handle, and its retain
\* count is the number of its unclosed handles; a construction for a signature
\* whose handles have all been closed opens a new physical connection and
\* stores it with retain count 1.
C17_CountIsUnclosedHandles ==
    /\ []((ENABLE_MQ /\ ClosedAtMostOnce) =>
            \A sig \in Signatures :
                /\ (sig \in DOMAIN _active_connections) <=> (Unclosed(sig) # {})
                /\ (sig \in DOMAIN _active_connections) =>
                       _active_connections[sig].count = Cardinality(Unclosed(sig)))
    /\ [][(/\ ENABLE_MQ
           /\ ClosedAtMostOnce
           /\ Len(handles') = Len(handles) + 1
           /\ Unclosed(handles'[Len(handles')].connection_signature) = {})
          => LET new == handles'[Len(handles')] IN
             /\ Len(connections') = Len(connections) + 1
             /\ new.connection = Len(connections')
             /\ _active_connections'[new.connection_signature] =
                    [count |-> 1, conn |-> Len(connections')]
      ]_vars

\* C18: every entry of _active_connections has a retain count of at least 1
\* and holds a connection that amqp.Connection returned, whichever of the
\* constructions and closes so far raised.
C18_EntriesAreRetained ==
    \A sig \in DOMAIN _active_connections :
        /\ _active_connections[sig].count >= 1
        /\ _active_connections[sig].conn \in DOMAIN connections

----------------------------------------------------------------------------
(* Publishing and popping. *)

\* With messaging enabled every other operation of a Publisher or a Consumer
\* adds an instance or sends a method: a step that does neither is a pop().
PopStep ==
    /\ UNCHANGED <<publishers, consumers, wire>>
    /\ <<exc, ret, popped>>' # <<exc, ret, popped>>

\* C15: the messages pop has returned from a queue are, in order, the first of
\* the messages published to it, each with the body that was sent, which is
\* the body basic_publish was called with when a Publisher (not a
\* JSONPublisher) sent it; a pop with no message waiting raises IndexError and
\* returns nothing.
C15_PopRoundTrip ==
    /\ [](\A c \in DOMAIN consumers :
            LET q == consumers[c].queue
                sent == Routed(q, Len(wire))
                got == SelectSeq(popped, LAMBDA m : m.queue = q)
            IN /\ Len(got) <= Len(sent)
               /\ \A i \in DOMAIN got :
                     /\ got[i].body = sent[i].body
                     /\ publishers[sent[i].by].class = "Publisher" => got[i].body = sent[i].arg)
    /\ [][(ENABLE_MQ /\ consumers # <<>> /\ PopStep) =>
            LET q == consumers[1].queue IN
            IF Waiting(q) = <<>>
            THEN exc' = "IndexError" /\ popped' = popped
            ELSE /\ exc' = "none"
                 /\ Len(popped') = Len(popped) + 1
                 /\ popped'[Len(popped')].queue = q
                 /\ popped'[Len(popped')].body = Head(Waiting(q)).body]_vars

\* Two different bodies were published by a Publisher to the bound queue and
\* popped back in the order they were published.
C15_Witness ==
    /\ Len(popped) = 2
    /\ popped[1].body = "a" /\ popped[2].body = "7"
    /\ Len(publishers) = 1 /\ publishers[1].class = "Publisher"
    /\ Waiting("_hare_test_queue") = <<>>

----------------------------------------------------------------------------
(* The hand-off of message_iterator. *)

\* C3: the messages the generator has yielded are the messages handed to the
\* callback, in delivery order: none is dropped, overwritten or duplicated on
\* the way.
C3_YieldedInDeliveryOrder ==
    /\ Len(yielded) <= Len(delivered)
    /\ \A i \in DOMAIN yielded : yielded[i] = delivered[i]

\* C4: the callback stores a message into message_available.result only when
\* the slot is empty (it holds no message that has not been yielded).
C4_NoOverwrite ==
    [][(cpc = "store" /\ cpc' = "set") => message_available.result = NoResult]_vars

\* The message_iterator generator has finished.
Exited == gpc \in {"done", "raised", "closed"}

\* C11: once message_iterator has subscribed, basic_cancel has been called with
\* the consumer tag exactly once when the generator has finished (limit
\* reached, closed at a yield, an exception out of channel.wait() or decode)
\* and the subscription is gone; it is not called before.
C11_CancelledOnExit ==
    /\ Exited => (cancels = 1 /\ ~subscribed)
    /\ ~Exited => cancels = 0
    /\ (gpc # "start" /\ ~Exited) => subscribed

\* The generator was closed at a yield after a message was delivered, and the
\* subscription was cancelled.
C11_Witness ==
    /\ gpc = "closed"
    /\ Len(yielded) >= 1
    /\ cancels = 1
    /\ ~subscribed

\* C12: at the step in which message_iterator ends because the limit is
\* reached (the StopIteration of consumer.py:157), message_available.result
\* holds no message: nothing handed to the callback is left unyielded in it.
C12_EmptyAtLimit ==
    [][(gpc # "done" /\ gpc' = "done") => message_available.result = NoResult]_vars

C19_SlotHeldAcrossYield ==
    /\ [](gpc = "yield" =>
            /\ event_lock = "generator"
            /\ ~waiting
            /\ message_available.set
            /\ message_available.result = yielded[Len(yielded)]
            /\ cpc \in {"idle", "acquire"})
    /\ [][(gpc = "yield" /\ <<message_available, waiting>>' # <<message_available, waiting>>)
            => /\ rpc = "for"
               /\ gpc' = "top"
               /\ message_available' = [set |-> FALSE, result |-> NoResult]
               /\ waiting']_vars

\* While the consumer works on message 1, the callback has been called with
\* message 2 on another thread and is held at event_lock; the slot still holds
\* message 1.
C19_Witness ==
    /\ gpc = "yield"
    /\ rpc = "body"
    /\ cpc = "acquire"
    /\ cmsg.delivery_tag = 2
    /\ message_available.result.delivery_tag = 1

----------------------------------------------------------------------------
(* Consumer.subscribe *)

\* C20: in subscribe a message is decoded before the callback is called, the
\* callback is called with the decoded message, and the message is
\* acknowledged, at most once, only after the callback has returned, which
\* is the next thing the wrapper does then; when the callback raises the
\* message is not acknowledged, the exception leaves subscribe, and
\* basic_cancel has been called, once and as the last thing, before it does.
\* The subscription is not cancelled while subscribe runs.
C20_AckAfterCallback ==
    /\ \A k \in 1..MaxMessages :
          /\ \A c \in SAt("callback returned", k) \cup SAt("callback raised", k) :
                /\ \E d \in SAt("decode", k) : d < c
                /\ slog[c].arg = Decoded(k).body
          /\ Cardinality(SAt("basic_ack", k)) <= 1
          /\ \A a \in SAt("basic_ack", k) : \E c \in SAt("callback returned", k) : c < a
          /\ \A c \in SAt("callback returned", k) :
                \/ c + 1 \in SAt("basic_ack", k) \cup SAt("basic_ack raised", k)
                \/ (c = Len(slog) /\ spc = "acknowledge")
          /\ \A x \in SAt("callback raised", k) :
                /\ SAt("basic_ack", k) = {}
                /\ spc = "raised"
                /\ sexc = slog[x].exc
                /\ x + 1 = Len(slog)
    /\ spc = "raised" <=> SAt("basic_cancel", 0) = {Len(slog)}

\* A message was handled and acknowledged, then the callback raised on the
\* next one: it is not acknowledged and the subscription is cancelled.
C20_Witness ==
    /\ SAt("basic_ack", 1) # {}
    /\ SAt("callback raised", 2) # {}
    /\ SAt("basic_ack", 2) = {}
    /\ spc = "raised"
    /\ sexc = "Exception"
    /\ slog[Len(slog)].ev = "basic_cancel"

----------------------------------------------------------------------------
(* ConsumerProcess.run *)

\* The places in events where run did `ev` for the message with tag k.
At(ev, k) == {i \in DOMAIN events : events[i].ev = ev /\ events[i].tag = k}

\* The delivery tags of the messages run has worked on.
Worked == {events[i].tag : i \in DOMAIN events}

\* The loop went on to the for statement after message k.
Continued(k) == At("next", k) # {}

\* An exception left run while it worked on message k.
Propagated(k) == At("raise", k) # {}

\* mail_admins was called for message k (and returned or raised).
MailCalls(k) == At("mail_admins", k) \cup At("mail_admins raised", k)

\* The exception process_message raised on message k.
ProcessExc(k) == events[CHOOSE i \in At("process_message raised", k) : TRUE].exc

\* Once an exception has left run on message k, nothing more is done: the
\* raise is the last event and the generator stays where it yielded k.
NothingAfter(k) ==
    Propagated(k) =>
        /\ events[Len(events)] = events[CHOOSE i \in At("raise", k) : TRUE]
        /\ rpc = "raised"
        /\ gpc = "yield"
        /\ yielded[Len(yielded)].delivery_tag = k

\* C8 as stated: a message process_message raised on is never acknowledged;
\* with fault_tolerant true the loop goes on, with fault_tolerant false the
\* failure leaves run and nothing more is processed.
C8_Original ==
    \A k \in Worked :
        At("process_message raised", k) # {} =>
            /\ At("basic_ack", k) = {}
            /\ Propagated(k) => ~fault_tolerant
            /\ Continued(k) => fault_tolerant
            /\ NothingAfter(k)

\* C8, amended: a message process_message raised on is never acknowledged; the
\* loop goes on to the for statement exactly when fault_tolerant is true, the
\* exception is not NotImplementedError and mail_admins returned; otherwise an
\* exception leaves run and nothing more is processed.
C8_FailureHandling ==
    \A k \in Worked :
        At("process_message raised", k) # {} =>
            /\ At("basic_ack", k) = {}
            /\ Continued(k) =>
                  /\ fault_tolerant
                  /\ ProcessExc(k) # "NotImplementedError"
                  /\ At("mail_admins", k) # {}
                  /\ ~Propagated(k)
            /\ Propagated(k) =>
                  \/ ~fault_tolerant
                  \/ ProcessExc(k) = "NotImplementedError"
                  \/ At("mail_admins raised", k) # {}
            /\ (Continued(k) \/ Propagated(k) \/
                   (rpc = "except" /\ message.delivery_tag = k))
            /\ NothingAfter(k)

\* process_message raised on one message under fault_tolerant, the loop went on
\* and a later message was processed.
C8_Witness ==
    \E k, n \in Worked :
        /\ fault_tolerant
        /\ At("process_message raised", k) # {}
        /\ Continued(k)
        /\ n > k
        /\ At("process_message returned", n) # {}

\* With auto_ack true, a message is acknowledged at most once, only after `ev`
\* happened for it and before the loop goes to the next message, with nothing
\* done for another message in between; and it has been acknowledged when `ev`
\* happened for it and run is through with it.
AckedOnceAfter(ev) ==
    auto_ack =>
        \A k \in Worked :
            /\ Cardinality(At("basic_ack", k)) <= 1
            /\ \A a \in At("basic_ack", k) :
                  /\ \E r \in At(ev, k) :
                        r < a /\ \A i \in r..a : events[i].tag = k
                  /\ \A n \in At("next", k) : a < n
            /\ (At(ev, k) # {} /\ (Continued(k) \/ Propagated(k)))
                  => At("basic_ack", k) # {}

\* C9 as stated: with auto_ack true a message is acknowledged exactly once if
\* and only if process_message returned normally for it, after the processing
\* and before the next message is taken.
C9_Original == AckedOnceAfter("process_message returned")

\* C9, amended: with auto_ack true a message is acknowledged exactly once if
\* and only if the with transaction() block around process_message ended
\* without raising (process_message returned and the commit did not raise),
\* after that and before the next message is taken.
C9_AckOnCommit == AckedOnceAfter("committed")

\* Two messages were processed and acknowledged, one after the other.
C9_Witness ==
    /\ auto_ack
    /\ \E k, n \in Worked :
          /\ k < n
          /\ At("basic_ack", k) # {} /\ Continued(k)
          /\ At("basic_ack", n) # {} /\ Continued(n)

\* C10 as stated: every failure process_message raises is logged and passed to
\* mail_admins before the loop continues or the failure leaves run.
C10_Original ==
    \A k \in Worked :
        \A f \in At("process_message raised", k) :
            \A d \in At("next", k) \cup At("raise", k) :
                \E l \in At("logger.critical", k), m \in MailCalls(k) :
                    f < l /\ l < m /\ m < d

\* C10, amended: every exception other than NotImplementedError that the with
\* block raises (from process_message or from the commit) is logged with
\* logger.critical and then passed to mail_admins before the loop continues or
\* an exception leaves run; NotImplementedError leaves run at once, neither
\* logged nor mailed.
C10_ReportedUnlessNotImplemented ==
    \A k \in Worked :
        \A f \in At("process_message raised", k) \cup At("commit raised", k) :
            IF events[f].exc = "NotImplementedError"
            THEN /\ At("logger.critical", k) = {}
                 /\ MailCalls(k) = {}
                 /\ Propagated(k)
            ELSE \A d \in At("next", k) \cup At("raise", k) :
                     \E l \in At("logger.critical", k), m \in MailCalls(k) :
                         f < l /\ l < m /\ m < d

\* A failure was logged and mailed and the loop went on; on another message a
\* NotImplementedError left run.
C10_Witness ==
    \E k, n \in Worked :
        /\ At("process_message raised", k) # {}
        /\ At("logger.critical", k) # {} /\ At("mail_admins", k) # {} /\ Continued(k)
        /\ At("process_message raised", n) # {}
        /\ ProcessExc(n) = "NotImplementedError"
        /\ Propagated(n)

----------------------------------------------------------------------------
(* The iteration limit. *)

\* C21: message_iterator(limit=N) calls channel.wait() at most N-1 times and so
\* yields at most N-1 messages, never more messages than it made wait() calls;
\* with limit=1 it calls wait() never, yields nothing and cancels on its first
\* pass; when it has stopped by itself the limit was given and every one of the
\* N-1 wait() calls was counted, however few of them brought a message; so
\* with limit=None it never stops by itself.
C21_LimitCountsWaits ==
    /\ limit # None => (waits <= limit - 1 /\ Len(yielded) <= limit - 1)
    /\ Len(yielded) <= waits
    /\ limit = 1 =>
           /\ waits = 0
           /\ yielded = <<>>
           /\ gpc \notin {"start", "top"} => (gpc = "done" /\ cancels = 1)
    /\ gpc = "done" => (limit # None /\ iterations = limit /\ waits = limit - 1)

\* With limit=3 the iterator has stopped by itself after two wait() calls of
\* which only one brought a message.
C21_Witness ==
    /\ limit = 3
    /\ gpc = "done"
    /\ waits = 2
    /\ Len(yielded) = 1

----------------------------------------------------------------------------
(* The waiting event. *)

\* The consumer has not closed the generator at a yield: it has resumed it
\* after every yield so far, or is still in its loop body.
Resumed == gpc # "closed"

\* C22: as long as the consumer resumes the generator after each yield, the
\* waiting event is set in every state where the generator does not hold
\* event_lock, and so the delivery callback, once it holds event_lock, is never
\* blocked in waiting.wait().
C22_WaitingSetOutsideLock ==
    Resumed =>
        /\ event_lock # "generator" => waiting
        /\ cpc = "wait" => waiting

----------------------------------------------------------------------------
(* Queue declarations. *)

\* Where on the wire the method was sent for queue q.
Sent(method, q) == {i \in DOMAIN wire : wire[i].method = method /\ wire[i].queue = q}

\* The method was sent for q at most once between queue_delete calls for q.
OncePerLife(method, q) ==
    \A i, j \in Sent(method, q) :
        i < j => \E d \in Sent("queue_delete", q) : i < d /\ d < j

\* The step is a Consumer.__init__ that returned, and the Consumer it made.
Constructed == Len(consumers') = Len(consumers) + 1
Made == consumers'[Len(consumers')]

\* The step is a destroy_queue call that returned, for the queue of its last
\* method.
DestroyReturned ==
    /\ Len(wire') = Len(wire) + 1
    /\ wire'[Len(wire')].method = "queue_delete"
    /\ exc' = "none"

\* C23: for every queue name, queue_declare and queue_bind are each sent at
\* most once between queue_delete calls, whichever Consumer sends them; a
\* construction that returns leaves the name recorded in _declared_queues, one
\* made with force_no_declare=True or for a recorded name sends nothing, any
\* other sends queue_declare and queue_bind for the name; a destroy_queue that
\* returns leaves the name unrecorded, so that the next such construction
\* declares again.
C23_DeclaredOncePerLife ==
    /\ [](\A q \in Queues : OncePerLife("queue_declare", q) /\ OncePerLife("queue_bind", q))
    /\ [][Constructed =>
            /\ In(Made.queue, _declared_queues')
            /\ IF forced' \/ In(Made.queue, _declared_queues)
               THEN wire' = wire
               ELSE /\ Len(wire') = Len(wire) + 2
                    /\ SubSeq(wire', 1, Len(wire)) = wire
                    /\ wire'[Len(wire) + 1].method = "queue_declare"
                    /\ wire'[Len(wire) + 1].queue = Made.queue
                    /\ wire'[Len(wire) + 2].method = "queue_bind"
                    /\ wire'[Len(wire) + 2].queue = Made.queue]_vars
    /\ [][DestroyReturned => ~In(wire'[Len(wire')].queue, _declared_queues')]_vars

\* A queue was declared by one Consumer, destroyed, and declared and bound
\* again by the next Consumer made for it, which left it recorded.
C23_Witness ==
    /\ \E i, j \in Sent("queue_bind", "_hare_test_queue") :
          \E d \in Sent("queue_delete", "_hare_test_queue") : i < d /\ d < j
    /\ Len(consumers) = 2
    /\ In("_hare_test_queue", _declared_queues)

----------------------------------------------------------------------------
(* Messaging disabled. *)

\* C7: with ENABLE_MQ false no operation raises for want of a broker (the
\* AssertionError about a missing exchange argument aside, which does not depend
\* on the setting), every operation returns None, the registry stays empty, no
\* connection or channel is opened and nothing is sent to the broker.
C7_DisabledIsNoOp ==
    ~ENABLE_MQ =>
        /\ exc \in {"none", "AssertionError"}
        /\ ret = None
        /\ DOMAIN _active_connections = {}
        /\ connections = <<>>
        /\ channels = <<>>
        /\ wire = <<>>

====
